---- MODULE Spec2Model ----
(***************************************************************************)
(* dev_azure_reporter: a command-line client that updates a field of one   *)
(* or several dev.azure.com TaskItems.  The model follows                  *)
(* src/dev_azure_reporter.py: the __main__ dispatch, _find_tasks,          *)
(* _read_value, report and report_batch, with every HTTP request as one    *)
(* step whose outcome the remote service chooses.                          *)
(***************************************************************************)
EXTENDS Integers, Sequences, FiniteSets, TLC

VARIABLES
    entry,                 \* "none" | "cli" (python dev_azure_reporter.py ...) | "api" (method call on an imported DevAzureReporter)
    args,                  \* the parsed arguments / the method's parameters
    taskitem_query_limit,  \* self.taskitem_query_limit, a Python value [type, v]
    pc,                    \* position of the run
    mode,                  \* "none" | "single" | "batch" | "usage"
    task_ids,              \* what _find_tasks returned
    idx,                   \* position of the list comprehension in task_ids
    cur,                   \* f"{task_id}" of the item report() is working on
    old,                   \* what _read_value returned for cur
    results,               \* report_batch's results list
    ret,                   \* return value of report / report_batch (-1: none yet)
    exit_code,             \* the process's exit code (-1: still running)
    err,                   \* why exit(1) was reached ("none" otherwise)
    log,                   \* the HTTP requests of this run, in the order sent
    store,                 \* the remote service: item key -> field (<<>> absent, <<s>> set)
    store0,                \* history: the remote store before the first run
    history,               \* history: the PATCHes the remote store applied, over all runs
    runs                   \* number of runs started

vars == <<entry, args, taskitem_query_limit, pc, mode, task_ids, idx, cur, old,
          results, ret, exit_code, err, log, store, store0, history, runs>>

----------------------------------------------------------------------------
(* Program constants *)

GIT_PATH_MIN_LENGTH == 10

TASKITEM_QUERY_LIMIT == 1

SEPARATOR == "<br>==========<br>"

----------------------------------------------------------------------------
(* Bounds of the model *)

MaxLimit == 3       \* largest ceiling tried

MaxFragLen == 11    \* longest git_path fragment tried

MaxRuns == 4        \* runs in a row against the same remote store

----------------------------------------------------------------------------
(* Input domains *)

Ids == {101, 205, 310}

Keys == {ToString(i) : i \in Ids}

Chars == {"a", "/", " ", "\t"}

Statuses == {101, 200, 304, 404, 500}

Operations == {"replace", "add"}

FieldNames == {"CustomField"}

FieldValues == {"Done", "Log"}

None == [some |-> FALSE]

Some(v) == [some |-> TRUE, v |-> v]

Range(s) == {s[i] : i \in 1..Len(s)}

\* A fragment of length n: letters, with up to two places holding any character.
FragmentsOfLen(n) ==
    {[i \in 1..n |-> IF i = p THEN c ELSE IF i = q THEN d ELSE "a"] :
        p \in 1..n, q \in 1..n, c \in Chars, d \in Chars}

AllFragments == UNION {FragmentsOfLen(n) : n \in 0..MaxFragLen}

ValidFragment == [i \in 1..GIT_PATH_MIN_LENGTH |-> IF i = 5 THEN "/" ELSE "a"]

ShortFragment == <<"a", "/", "a">>

\* The lists of distinct ids a search can return.
SearchResults ==
    {s \in UNION {[1..n -> Ids] : n \in 0..Cardinality(Ids)} :
        \A i, j \in 1..Len(s) : i # j => s[i] # s[j]}

\* Python values of the ceiling: an int, or the str argparse yields for -task_limit.
PyInt(n) == [type |-> "int", v |-> n]

PyStr(n) == [type |-> "str", v |-> n]

----------------------------------------------------------------------------
(* Pure helpers of the program *)

\* Python truthiness of an optional str argument.
Truthy(a) == a.some /\ a.v # ""

\* Python truthiness of the optional git_path argument (a sequence of characters here).
TruthyPath(a) == a.some /\ Len(a.v) > 0

\* (mutant) the length test dropped
git_path_is_valid_NoLengthCheck(git_path) ==
    IF ~(\E i \in 1..Len(git_path) : git_path[i] = "/") THEN FALSE
    ELSE IF \E i \in 1..Len(git_path) : git_path[i] = " " THEN FALSE
    ELSE TRUE

_git_path_is_valid(git_path) ==
    IF ~(\E i \in 1..Len(git_path) : git_path[i] = "/") THEN FALSE
    ELSE IF \E i \in 1..Len(git_path) : git_path[i] = " " THEN FALSE
    ELSE IF Len(git_path) < GIT_PATH_MIN_LENGTH THEN FALSE
    ELSE TRUE

\* requests' Response.raise_for_status: HTTPError for 4xx and 5xx only.
RaisesForStatus(status) == 400 <= status /\ status < 600

\* rslt.json()["fields"][field_name], KeyError -> "".
ReadField(body) == IF body = <<>> THEN "" ELSE body[1]

\* (mutant) the separator left out of an append
PatchValue_NoSeparator(operation, value, existing) ==
    IF operation # "add" THEN value ELSE existing \o value

\* (mutant) an append that forgets what was read
PatchValue_DropsOld(operation, value, existing) ==
    IF operation # "add" THEN value ELSE SEPARATOR \o value

\* The "value" member of report's data.
PatchValue(operation, value, existing) ==
    IF operation # "add" THEN value ELSE existing \o SEPARATOR \o value

\* report's data: one JSON-patch operation.
PatchData(operation, field_name, value, existing) ==
    << [op    |-> operation,
        path  |-> "/fields/" \o field_name,
        value |-> PatchValue(operation, value, existing)] >>

\* len(result) > self.taskitem_query_limit: "TypeError" for int > str.
ExceedsLimit(n, limit) ==
    IF limit.type = "str" THEN "TypeError"
    ELSE IF n > limit.v THEN "yes" ELSE "no"

\* (mutant) only the last update decides
BatchResult_LastOnly(rs) == IF rs # <<>> /\ rs[Len(rs)] = 0 THEN 0 ELSE 1

\* report_batch's return value.
BatchResult(rs) == IF Range(rs) = {0} THEN 0 ELSE 1

\* One request of the log.
Request(method, url, data, exc, status, body) ==
    [method |-> method, url |-> url, data |-> data,
     exc |-> exc, status |-> status, body |-> body]

\* The remote service applies a PATCH it answers with 2xx by overwriting the field.
Applied(status) == 200 <= status /\ status < 300

----------------------------------------------------------------------------
(* Initial state: no run started, the remote store holds some items' fields *)

Init ==
    /\ entry = "none"
    /\ args = [task_id |-> None, filter_by |-> None, git_path |-> None,
               field_name |-> "CustomField", field_value |-> "Done",
               operation |-> "replace"]
    /\ taskitem_query_limit = PyInt(TASKITEM_QUERY_LIMIT)
    /\ pc = "idle"
    /\ mode = "none"
    /\ task_ids = <<>>
    /\ idx = 1
    /\ cur = ""
    /\ old = ""
    /\ results = <<>>
    /\ ret = -1
    /\ exit_code = -1
    /\ err = "none"
    /\ log = <<>>
    /\ store \in [Keys -> {<<>>, <<"old">>}]
    /\ store0 = store
    /\ history = <<>>
    /\ runs = 0

----------------------------------------------------------------------------
(* Starting a run *)

FreshRun ==
    /\ mode' = "none"
    /\ task_ids' = <<>>
    /\ idx' = 1
    /\ cur' = ""
    /\ old' = ""
    /\ results' = <<>>
    /\ ret' = -1
    /\ exit_code' = -1
    /\ err' = "none"
    /\ log' = <<>>

CanStart(maxruns) == pc \in {"idle", "exited", "returned"} /\ runs < maxruns

\* (mutant) the read made whatever the operation
ReportEntry_AlwaysRead(operation) == "read_value"

\* First step of report() for one item: the read comes first when appending.
ReportEntry(operation) == IF operation = "add" THEN "read_value" ELSE "patch"

\* python dev_azure_reporter.py -token .. -project .. [-task_id t] [-filter_by f]
\* [-git_path g] [-task_limit n] -field_name .. -field_value .. [-operation o]
CommandLine(maxruns, TaskIdArgs, FilterArgs, PathArgs, LimitArgs, Ops, Values) ==
    /\ CanStart(maxruns)
    /\ \E t \in TaskIdArgs, f \in FilterArgs, g \in PathArgs, l \in LimitArgs,
          o \in Ops, fn \in FieldNames, v \in Values :
        /\ args' = [task_id |-> t, filter_by |-> f, git_path |-> g,
                    field_name |-> fn, field_value |-> v, operation |-> o]
        /\ taskitem_query_limit' = l
    /\ entry' = "cli"
    /\ pc' = "main"
    /\ runs' = runs + 1
    /\ FreshRun
    /\ UNCHANGED <<store, store0, history>>

\* DevAzureReporter(project, token, limit).report(task_id, field_name, value, operation)
CallReport(maxruns, TaskIds, Ops, Values) ==
    /\ CanStart(maxruns)
    /\ \E t \in TaskIds, o \in Ops, fn \in FieldNames, v \in Values :
        /\ args' = [task_id |-> Some(ToString(t)), filter_by |-> None, git_path |-> None,
                    field_name |-> fn, field_value |-> v, operation |-> o]
        /\ cur' = ToString(t)
        /\ pc' = ReportEntry(o)
    /\ taskitem_query_limit' = PyInt(TASKITEM_QUERY_LIMIT)
    /\ entry' = "api"
    /\ mode' = "single"
    /\ runs' = runs + 1
    /\ task_ids' = <<>> /\ idx' = 1 /\ old' = "" /\ results' = <<>>
    /\ ret' = -1 /\ exit_code' = -1 /\ err' = "none" /\ log' = <<>>
    /\ UNCHANGED <<store, store0, history>>

\* DevAzureReporter(project, token, limit).report_batch(query_field, git_path, ...)
CallReportBatch(maxruns, Paths, Limits, Ops, Values) ==
    /\ CanStart(maxruns)
    /\ \E g \in Paths, l \in Limits, o \in Ops, fn \in FieldNames, v \in Values :
        /\ args' = [task_id |-> None, filter_by |-> Some("System.Tags"), git_path |-> Some(g),
                    field_name |-> fn, field_value |-> v, operation |-> o]
        /\ taskitem_query_limit' = PyInt(l)
    /\ entry' = "api"
    /\ mode' = "batch"
    /\ pc' = "find_tasks"
    /\ runs' = runs + 1
    /\ task_ids' = <<>> /\ idx' = 1 /\ cur' = "" /\ old' = "" /\ results' = <<>>
    /\ ret' = -1 /\ exit_code' = -1 /\ err' = "none" /\ log' = <<>>
    /\ UNCHANGED <<store, store0, history>>

----------------------------------------------------------------------------
(* The program *)

\* exit(1), or an uncaught exception: the process ends with exit code 1.
Exit1(reason) ==
    /\ pc' = "exited"
    /\ exit_code' = 1
    /\ err' = reason

\* Where a finished report()/report_batch() call hands its value.
Caller == IF entry = "cli" THEN "main_exit" ELSE "returned"

\* (mutant) -task_id wins over the filter arguments
Dispatch_TaskIdWins(task_id, filter_by, git_path) ==
    IF Truthy(task_id) THEN "single"
    ELSE IF Truthy(filter_by) /\ TruthyPath(git_path) THEN "batch"
    ELSE "usage"

\* __main__: which branch of the dispatch the arguments take.  In
\* "filter_by == git_path == None" the second comparison demands git_path is None,
\* and then the first holds only for filter_by None.
Dispatch(task_id, filter_by, git_path) ==
    IF Truthy(task_id) /\ (~filter_by.some /\ ~git_path.some) THEN "single"
    ELSE IF (Truthy(filter_by) /\ TruthyPath(git_path)) /\ ~task_id.some THEN "batch"
    ELSE "usage"

\* __main__: the mode dispatch.
Main ==
    /\ pc = "main"
    /\ LET branch == Dispatch(args.task_id, args.filter_by, args.git_path) IN
       IF branch = "single"
       THEN /\ mode' = "single"
            /\ cur' = args.task_id.v
            /\ pc' = ReportEntry(args.operation)
            /\ UNCHANGED <<ret, exit_code, err>>
       ELSE IF branch = "batch"
       THEN /\ mode' = "batch"
            /\ pc' = "find_tasks"
            /\ UNCHANGED <<cur, ret, exit_code, err>>
       ELSE /\ mode' = "usage"
            /\ ret' = 1
            /\ exit_code' = 1
            /\ pc' = "exited"
            /\ UNCHANGED <<cur, err>>
    /\ UNCHANGED <<entry, args, taskitem_query_limit, task_ids, idx, old, results,
                   log, store, store0, history, runs>>

\* _find_tasks: the fragment check, the query, the ceiling.
FindTasks ==
    /\ pc = "find_tasks"
    /\ IF ~_git_path_is_valid(args.git_path.v)
       THEN /\ Exit1("invalid_git_path")
            /\ UNCHANGED <<log, task_ids, cur>>
       ELSE \/ /\ log' = Append(log, Request("POST", "wiql", <<>>, "ConnectTimeout", 0, <<>>))
               /\ Exit1("timeout")
               /\ UNCHANGED <<task_ids, cur>>
            \/ /\ log' = Append(log, Request("POST", "wiql", <<>>, "ConnectionError", 0, <<>>))
               /\ Exit1("query_failed")
               /\ UNCHANGED <<task_ids, cur>>
            \/ \E status \in {s \in Statuses : RaisesForStatus(s)} :
               /\ log' = Append(log, Request("POST", "wiql", <<>>, "none", status, <<>>))
               /\ Exit1("query_failed")
               /\ UNCHANGED <<task_ids, cur>>
            \/ \E status \in {s \in Statuses : ~RaisesForStatus(s) /\ ~Applied(s)} :
               \* no JSON body to read "workItems" from: uncaught in the else branch
               /\ log' = Append(log, Request("POST", "wiql", <<>>, "none", status, <<>>))
               /\ Exit1("JSONDecodeError")
               /\ UNCHANGED <<task_ids, cur>>
            \/ \E status \in {s \in Statuses : Applied(s)}, result \in SearchResults :
               /\ log' = Append(log, Request("POST", "wiql", <<>>, "none", status, result))
               /\ LET over == ExceedsLimit(Len(result), taskitem_query_limit) IN
                  IF over = "TypeError"
                  THEN Exit1("TypeError") /\ UNCHANGED <<task_ids, cur>>
                  ELSE IF over = "yes"
                  THEN Exit1("too_many") /\ UNCHANGED <<task_ids, cur>>
                  ELSE /\ task_ids' = result
                       /\ IF Len(result) > 0
                          THEN cur' = ToString(result[1]) /\ pc' = ReportEntry(args.operation)
                          ELSE cur' = cur /\ pc' = "batch_return"
                       /\ UNCHANGED <<exit_code, err>>
    /\ UNCHANGED <<entry, args, taskitem_query_limit, mode, idx, old, results, ret,
                   store, store0, history, runs>>

\* What a request can meet: no connection in time, another transport failure, or
\* an answer with a status.
Responses ==
    {[exc |-> "ConnectTimeout", status |-> 0], [exc |-> "ConnectionError", status |-> 0]}
        \cup {[exc |-> "none", status |-> st] : st \in Statuses}

\* (mutant) every failure of the read taken for a missing field
ReadOutcome_FailureAsEmpty(resp) ==
    IF resp.exc = "ConnectTimeout" THEN "exit" ELSE "value"

\* _read_value's try/except: "exit" (ConnectTimeout, or any other exception: an
\* HTTPError, a transport failure, an answer without a JSON body) or "value".
ReadOutcome(resp) ==
    IF resp.exc = "ConnectTimeout" THEN "exit"
    ELSE IF resp.exc # "none" \/ RaisesForStatus(resp.status) \/ ~Applied(resp.status)
    THEN "exit"
    ELSE "value"

\* _read_value: the GET that report() makes first when operation is "add".
ReadValue ==
    /\ pc = "read_value"
    /\ cur \in DOMAIN store
    /\ \E resp \in Responses :
        LET body == IF resp.exc = "none" /\ Applied(resp.status) THEN store[cur] ELSE <<>> IN
        /\ log' = Append(log, Request("GET", cur, <<>>, resp.exc, resp.status, body))
        /\ IF ReadOutcome(resp) = "exit"
           THEN /\ Exit1(IF resp.exc = "ConnectTimeout" THEN "timeout" ELSE "read_failed")
                /\ UNCHANGED old
           ELSE /\ old' = ReadField(body)
                /\ pc' = "patch"
                /\ UNCHANGED <<exit_code, err>>
    /\ UNCHANGED <<entry, args, taskitem_query_limit, mode, task_ids, idx, cur,
                   results, ret, store, store0, history, runs>>

\* report() hands r back: to __main__ / the caller, or to report_batch's comprehension.
ReportReturns(r) ==
    IF mode = "single"
    THEN /\ ret' = r
         /\ pc' = Caller
         /\ UNCHANGED <<results, idx, cur>>
    ELSE /\ results' = Append(results, r)
         /\ idx' = idx + 1
         /\ IF idx + 1 <= Len(task_ids)
            THEN cur' = ToString(task_ids[idx + 1]) /\ pc' = ReportEntry(args.operation)
            ELSE cur' = cur /\ pc' = "batch_return"
         /\ UNCHANGED ret

\* (mutant) raise_for_status() left out
PatchOutcome_NoStatusCheck(resp) ==
    IF resp.exc = "ConnectTimeout" THEN "exit"
    ELSE IF resp.exc # "none" THEN "1"
    ELSE "0"

\* report's try/except/else around requests.patch: "exit" on ConnectTimeout, 1 on
\* any other exception, 0 otherwise.
PatchOutcome(resp) ==
    IF resp.exc = "ConnectTimeout" THEN "exit"
    ELSE IF resp.exc # "none" \/ RaisesForStatus(resp.status) THEN "1"
    ELSE "0"

\* report: the PATCH and its handlers.
Patch ==
    /\ pc = "patch"
    /\ cur \in DOMAIN store
    /\ \E resp \in Responses :
        LET data == PatchData(args.operation, args.field_name, args.field_value, old)
            outcome == PatchOutcome(resp)
        IN
        /\ log' = Append(log, Request("PATCH", cur, data, resp.exc, resp.status, <<>>))
        /\ IF outcome = "exit"
           THEN /\ Exit1("timeout")
                /\ UNCHANGED <<results, idx, cur, ret>>
           ELSE /\ ReportReturns(IF outcome = "1" THEN 1 ELSE 0)
                /\ UNCHANGED <<exit_code, err>>
        /\ IF resp.exc = "none" /\ Applied(resp.status)
           THEN /\ store' = [store EXCEPT ![cur] = <<data[1].value>>]
                /\ history' = Append(history, [key |-> cur, op |-> args.operation,
                                               value |-> args.field_value])
           ELSE UNCHANGED <<store, history>>
    /\ old' = ""
    /\ UNCHANGED <<entry, args, taskitem_query_limit, mode, task_ids, store0, runs>>

\* report_batch: the return after the comprehension.
ReportBatchReturn ==
    /\ pc = "batch_return"
    /\ ret' = BatchResult(results)
    /\ pc' = Caller
    /\ UNCHANGED <<entry, args, taskitem_query_limit, mode, task_ids, idx, cur, old,
                   results, exit_code, err, log, store, store0, history, runs>>

\* __main__: exit(result).
MainExit ==
    /\ pc = "main_exit"
    /\ exit_code' = ret
    /\ pc' = "exited"
    /\ UNCHANGED <<entry, args, taskitem_query_limit, mode, task_ids, idx, cur, old,
                   results, ret, err, log, store, store0, history, runs>>

----------------------------------------------------------------------------
(* Specifications *)

OptionalIds == {None, Some("")} \cup {Some(k) : k \in Keys}

OptionalFilters == {None, Some(""), Some("System.Tags")}

OptionalPaths == {None, Some(<<>>), Some(ShortFragment), Some(ValidFragment)}

CliLimits == {PyInt(TASKITEM_QUERY_LIMIT)} \cup {PyStr(n) : n \in 1..MaxLimit}

\* One run, from the command line or through the class.
StartCli == CommandLine(1, OptionalIds, OptionalFilters, OptionalPaths, CliLimits,
                        Operations, {"Done"})

StartReport == CallReport(1, Ids, Operations, {"Done"})

StartReportBatch == CallReportBatch(1, {ShortFragment, ValidFragment}, 1..MaxLimit,
                                    Operations, {"Done"})

Program == Main \/ FindTasks \/ ReadValue \/ Patch \/ ReportBatchReturn \/ MainExit

Next == StartCli \/ StartReport \/ StartReportBatch \/ Program

Spec == Init /\ [][Next]_vars

\* Fragment validation: batch runs over every fragment of AllFragments, up to the
\* answer to the query.
StartFragment == CommandLine(1, {None}, {Some("System.Tags")},
                             {Some(g) : g \in AllFragments},
                             {PyInt(TASKITEM_QUERY_LIMIT)}, {"replace"}, {"Done"})

StartFragmentCall == CallReportBatch(1, AllFragments, {TASKITEM_QUERY_LIMIT},
                                     {"replace"}, {"Done"})

NextFragment == StartFragment \/ StartFragmentCall \/ Main \/ FindTasks

SpecFragment == Init /\ [][NextFragment]_vars

\* Repeated single-id runs against the same remote store.
StartRepeat == CommandLine(MaxRuns, {Some("101")}, {None}, {None},
                           {PyInt(TASKITEM_QUERY_LIMIT)}, Operations, FieldValues)

NextRepeat == StartRepeat \/ Main \/ ReadValue \/ Patch \/ MainExit

SpecRepeat == Init /\ [][NextRepeat]_vars

----------------------------------------------------------------------------
(* Vocabulary of the properties *)

Patches == SelectSeq(log, LAMBDA r : r.method = "PATCH")

\* The requests sent to work items (everything but the query).
ItemRequests == SelectSeq(log, LAMBDA r : r.method # "POST")

\* report()/report_batch() has handed its value back (to __main__ or to the caller).
Returned == ret # -1 /\ mode \in {"single", "batch"}

\* A PATCH that did not time out and that report() counts as failed.
FailedPatch(r) == r.method = "PATCH" /\ (r.exc = "ConnectionError" \/ r.status >= 400)

\* A request whose failure ends the run.
FatalRequest(r) ==
    \/ r.exc = "ConnectTimeout"
    \/ r.method = "GET" /\ (r.exc # "none" \/ r.status < 200 \/ r.status >= 300)

----------------------------------------------------------------------------
(* C1: batch mode attempts every resolved id once, in the search's order *)

\* C1.  In a batch run the PATCHes sent so far go, one each and in order, to the
\* ids the search returned; a run is cut short only by a fatal request (a connect
\* timeout or a failed read), never by a PATCH that merely failed; and once
\* report_batch has returned, every resolved id has had exactly one PATCH and the
\* value returned (the exit code of a command-line run) is 1 if any PATCH failed.
C1_BatchAttemptsEveryId ==
    mode = "batch" =>
        /\ Len(Patches) <= Len(task_ids)
        /\ \A i \in 1..Len(Patches) : Patches[i].url = ToString(task_ids[i])
        /\ task_ids # <<>> => task_ids = log[1].body
        /\ (pc = "exited" /\ err # "none" /\ Len(log) > 1) => FatalRequest(log[Len(log)])
        /\ Returned =>
            /\ Len(Patches) = Len(task_ids)
            /\ (\E i \in 1..Len(Patches) : FailedPatch(Patches[i])) => ret = 1
            /\ pc = "exited" => exit_code = ret

\* The spec's example: ids in the order [310, 101, 205], the second PATCH answered
\* 404, the other two 200; all three were sent and the run exits with 1.
C1_Witness ==
    /\ mode = "batch"
    /\ Returned
    /\ task_ids = <<310, 101, 205>>
    /\ Len(Patches) = 3
    /\ Patches[1].status = 200 /\ Patches[2].status = 404 /\ Patches[3].status = 200
    /\ ret = 1

----------------------------------------------------------------------------
(* C2: the ceiling *)

\* C2.  On the command line, with ceiling c (the default 1, or the value given
\* with -task_limit) and a search answered with n ids: n > c ends the run with exit
\* code 1 and no request to any item; n <= c lets the run go on with those ids.
C2_CeilingEnforced ==
    (/\ entry = "cli"
     /\ mode = "batch"
     /\ Len(log) >= 1
     /\ log[1].exc = "none" /\ log[1].status = 200) =>
        LET n == Len(log[1].body)
            c == taskitem_query_limit.v
        IN
        /\ n > c => pc = "exited" /\ exit_code = 1 /\ Len(log) = 1
        /\ n <= c => task_ids = log[1].body /\ err = "none"

----------------------------------------------------------------------------
(* C5: report_batch's return value, the empty search included *)

\* C5.  report_batch returns 0 exactly when no update failed; a search with no
\* match sends no PATCH and, no update having failed, the run ends with 0.
C5_BatchReturnValue ==
    (mode = "batch" /\ Returned) =>
        /\ ret = 0 <=> (\A i \in 1..Len(results) : results[i] = 0)
        /\ task_ids = <<>> => Patches = <<>> /\ ret = 0
        /\ pc = "exited" => exit_code = ret

----------------------------------------------------------------------------
(* C3: fragment validation *)

HasChar(g, cs) == \E i \in 1..Len(g) : g[i] \in cs

\* _find_tasks has run on the fragment of a batch run.
FragmentChecked == mode = "batch" /\ pc # "find_tasks"

\* C3 as stated: a fragment shorter than 10, or holding any whitespace character
\* (a space or a tab), or holding no "/", ends the run with exit code 1 before any
\* request; every other fragment is accepted and the query is sent.
C3_RejectsAnyWhitespace ==
    FragmentChecked =>
        LET g == args.git_path.v
            bad == Len(g) < 10 \/ HasChar(g, {" ", "\t"}) \/ ~HasChar(g, {"/"})
        IN
        /\ bad => pc = "exited" /\ exit_code = 1 /\ log = <<>>
        /\ ~bad => Len(log) >= 1 /\ log[1].method = "POST"

\* C3, amended: the same with "holds a space character" for "holds whitespace".
C3_FragmentValidation ==
    FragmentChecked =>
        LET g == args.git_path.v
            bad == Len(g) < 10 \/ HasChar(g, {" "}) \/ ~HasChar(g, {"/"})
        IN
        /\ bad => pc = "exited" /\ exit_code = 1 /\ err = "invalid_git_path" /\ log = <<>>
        /\ ~bad => Len(log) >= 1 /\ log[1].method = "POST"

\* A fragment of 10 characters with a "/" and a space is rejected before any request.
C3_Witness ==
    /\ FragmentChecked
    /\ Len(args.git_path.v) = 10
    /\ HasChar(args.git_path.v, {"/"})
    /\ HasChar(args.git_path.v, {" "})
    /\ pc = "exited" /\ exit_code = 1 /\ log = <<>>

----------------------------------------------------------------------------
(* C4: mode selection *)

\* C4.  On the command line, single-id mode is entered only with -task_id alone,
\* batch mode only with -filter_by and -git_path and no -task_id; every other
\* combination is a usage error: exit code 1 and not one request.
C4_ModeSelection ==
    (entry = "cli" /\ pc # "main") =>
        LET t == args.task_id.some
            f == args.filter_by.some
            g == args.git_path.some
        IN
        /\ mode \in {"single", "batch", "usage"}
        /\ mode = "single" => t /\ ~f /\ ~g
        /\ mode = "batch" => f /\ g /\ ~t
        /\ (~(t /\ ~f /\ ~g) /\ ~(f /\ g /\ ~t)) => mode = "usage"
        /\ mode = "usage" => pc = "exited" /\ exit_code = 1 /\ log = <<>>

\* -task_id together with -git_path: a usage error, exit code 1, no request.
C4_Witness ==
    /\ entry = "cli"
    /\ args.task_id.some /\ args.task_id.v = "101"
    /\ args.git_path.some /\ args.git_path.v = ValidFragment
    /\ mode = "usage"
    /\ pc = "exited" /\ exit_code = 1 /\ log = <<>>

----------------------------------------------------------------------------
(* C6: single-id mode *)

\* The one PATCH body report() may send for the run's arguments.
WellFormedBody(data) ==
    /\ Len(data) = 1
    /\ data[1].op = args.operation
    /\ data[1].path = "/fields/" \o args.field_name
    /\ args.operation = "replace" => data[1].value = args.field_value

\* C6 as stated: in single-id mode exactly one PATCH is sent, with the
\* single-operation body, and report returns 0 exactly when it was answered 2xx.
C6_Non2xxFails ==
    (mode = "single" /\ Returned) =>
        /\ Len(Patches) = 1
        /\ WellFormedBody(Patches[1].data)
        /\ ret = 0 <=> (/\ Patches[1].exc = "none"
                        /\ 200 <= Patches[1].status /\ Patches[1].status < 300)

\* C6, amended: report returns 1 exactly when the PATCH raised (a 4xx or 5xx
\* status, or a transport failure other than a connect timeout); 2xx, and also 1xx
\* and 3xx, give 0.  Never more than one PATCH is sent, and the exit code of a
\* command-line run is report's value.
C6_SingleReport ==
    mode = "single" =>
        /\ Len(Patches) <= 1
        /\ \A i \in 1..Len(Patches) :
            WellFormedBody(Patches[i].data) /\ Patches[i].url = args.task_id.v
        /\ Returned =>
            /\ Len(Patches) = 1
            /\ ret = 0 <=> (Patches[1].exc = "none" /\ Patches[1].status < 400)
            /\ ret \in {0, 1}
            /\ (200 <= Patches[1].status /\ Patches[1].status < 300) => ret = 0
            /\ pc = "exited" => exit_code = ret

\* -task_id 101 with replace: the one PATCH is answered 404 and the run exits with 1.
C6_Witness ==
    /\ entry = "cli"
    /\ mode = "single"
    /\ args.operation = "replace"
    /\ Len(Patches) = 1
    /\ Patches[1].data = << [op |-> "replace", path |-> "/fields/CustomField",
                             value |-> "Done"] >>
    /\ Patches[1].status = 404
    /\ pc = "exited" /\ exit_code = 1

----------------------------------------------------------------------------
(* C7: what an append sends *)

\* C7.  Every PATCH of an "add" run directly follows the read of the same item and
\* sends old + "<br>==========<br>" + value, old being what that read returned, ""
\* when the item has no such field; a read of an item without the field does not
\* end the run; every PATCH of a "replace" run sends the value as given.
C7_AppendComposition ==
    \A k \in 1..Len(log) :
        /\ (log[k].method = "PATCH" /\ args.operation = "add") =>
            /\ k > 1
            /\ log[k-1].method = "GET"
            /\ log[k-1].url = log[k].url
            /\ log[k].data[1].value =
                  (IF log[k-1].body = <<>> THEN "" ELSE log[k-1].body[1])
                      \o "<br>==========<br>" \o args.field_value
        /\ (log[k].method = "PATCH" /\ args.operation = "replace") =>
            log[k].data[1].value = args.field_value
        /\ (log[k].method = "GET" /\ log[k].exc = "none" /\ log[k].status = 200) =>
            /\ log[k].body = store0[log[k].url]
            /\ k = Len(log) => pc = "patch" /\ exit_code = -1

\* Both cases in one batch: the first item has the field, the second has not.
C7_Witness ==
    /\ args.operation = "add"
    /\ Len(log) = 5
    /\ log[2].method = "GET" /\ log[2].body = <<"old">>
    /\ log[3].method = "PATCH"
    /\ log[3].data[1].value = "old<br>==========<br>Done"
    /\ log[4].method = "GET" /\ log[4].body = <<>>
    /\ log[5].method = "PATCH"
    /\ log[5].data[1].value = "<br>==========<br>Done"

----------------------------------------------------------------------------
(* C8: reads and patches *)

\* The item the k-th request to a work item is about.
ItemOf(k, perItem) ==
    IF mode = "batch" THEN ToString(task_ids[(k + perItem - 1) \div perItem])
    ELSE args.task_id.v

\* C8.  A "replace" run sends no GET.  In an "add" run the requests to work items
\* alternate GET id1, PATCH id1, GET id2, PATCH id2, ...: one GET per item, answered
\* before that item's PATCH is sent, and no read of a later item before the PATCH
\* of an earlier one.
C8_ReadPatchOrder ==
    LET R == ItemRequests IN
    /\ args.operation = "replace" =>
        \A k \in 1..Len(R) : R[k].method = "PATCH" /\ R[k].url = ItemOf(k, 1)
    /\ args.operation = "add" =>
        \A k \in 1..Len(R) :
            /\ R[k].method = (IF k % 2 = 1 THEN "GET" ELSE "PATCH")
            /\ R[k].url = ItemOf(k, 2)
            /\ (k < Len(R) /\ R[k].method = "GET") =>
                  R[k].exc = "none" /\ R[k].status = 200

\* An "add" batch over three ids: POST, then GET/PATCH for each id in turn.
C8_Witness ==
    /\ mode = "batch"
    /\ args.operation = "add"
    /\ Len(task_ids) = 3
    /\ Len(log) = 7
    /\ \A k \in 1..3 : /\ log[2*k].method = "GET"
                       /\ log[2*k].url = ToString(task_ids[k])
                       /\ log[2*k+1].method = "PATCH"
                       /\ log[2*k+1].url = ToString(task_ids[k])

----------------------------------------------------------------------------
(* C9: fatal and non-fatal failures *)

\* C9.  A connect timeout on any request, and any failure of a read, is the last
\* request of the run, which ends at once with exit code 1 (so the item whose read
\* failed gets no PATCH and no later id gets a request).  A PATCH that fails
\* otherwise makes report return 1 and does not end the run: a batch goes on to
\* the next id.
C9_FatalFailures ==
    \A k \in 1..Len(log) :
        /\ FatalRequest(log[k]) =>
            /\ k = Len(log)
            /\ pc = "exited" /\ exit_code = 1 /\ err # "none"
        /\ (FailedPatch(log[k]) /\ mode = "single") => ret = 1 /\ err = "none"
        /\ (FailedPatch(log[k]) /\ mode = "batch") =>
            LET j == Len(SelectSeq(SubSeq(log, 1, k), LAMBDA r : r.method = "PATCH")) IN
            /\ Len(results) >= j /\ results[j] = 1
            /\ (k = Len(log) /\ j < Len(task_ids)) => pc \in {"read_value", "patch"}
            /\ (k = Len(log) /\ j = Len(task_ids)) => err = "none"

\* A batch of three: the first PATCH is answered 500 and the batch goes on; the
\* second meets a connect timeout, and the third id is never asked.
C9_Witness ==
    /\ mode = "batch"
    /\ Len(task_ids) = 3
    /\ Len(log) = 3
    /\ log[2].method = "PATCH" /\ log[2].status = 500
    /\ log[3].method = "PATCH" /\ log[3].exc = "ConnectTimeout"
    /\ results = <<1>>
    /\ pc = "exited" /\ exit_code = 1

----------------------------------------------------------------------------
(* C10: replace is idempotent, add accumulates *)

\* The PATCHes the remote store applied to item key, oldest first.
AppliedTo(key) == SelectSeq(history, LAMBDA h : h.key = key)

\* A field after the updates of h, as the claim has them: a replace leaves its
\* value, whatever was there; an add leaves what was there (nothing, for a field
\* not set), the separator, and its value.
RECURSIVE After(_, _)
After(field, h) ==
    IF h = <<>> THEN field
    ELSE After(IF Head(h).op = "replace"
               THEN <<Head(h).value>>
               ELSE <<(IF field = <<>> THEN "" ELSE field[1])
                          \o "<br>==========<br>" \o Head(h).value>>,
               Tail(h))

\* C10.  After any sequence of runs, each item's field is what the successful
\* updates make of its first value: a replace of v leaves v however often it is
\* run, and n adds of v1..vn to s leave s followed by the separator and vi for each
\* i in order.
C10_ReplaceIdempotentAddAccumulates ==
    \A key \in Keys : store[key] = After(store0[key], AppliedTo(key))

\* Four runs on item 101, whose field was "old": replace Done twice, then add Log
\* twice.  The second replace changed nothing; both adds are kept.
C10_Witness ==
    /\ store0["101"] = <<"old">>
    /\ Len(history) = 4
    /\ \A i \in 1..4 : history[i].key = "101"
    /\ history[1].op = "replace" /\ history[1].value = "Done"
    /\ history[2].op = "replace" /\ history[2].value = "Done"
    /\ history[3].op = "add" /\ history[3].value = "Log"
    /\ history[4].op = "add" /\ history[4].value = "Log"
    /\ store["101"] = <<"Done<br>==========<br>Log<br>==========<br>Log">>

====
